---------------------------- MODULE Spec2Model ----------------------------
(***************************************************************************)
(* Model of crates/encoding/src/glyph_cache.rs: the glyph cache that owns  *)
(* a shared Encoding buffer and a memo map GlyphKey -> CachedRange.        *)
(*                                                                         *)
(* The state is the two fields of GlyphCache (encoding, glyphs) plus       *)
(* observation variables that record the last call and its result, so     *)
(* that properties of calls can be stated over states and steps.           *)
(***************************************************************************)
EXTENDS Integers, Sequences, FiniteSets, TLC

(***************************************************************************)
(* Bounds of the model.                                                    *)
(***************************************************************************)
\* get_or_insert is explored while the buffer holds fewer style records.
MaxStyles == 3
\* Number of path segments of the well-formed sample outline.
OutlineSegs == 2

(***************************************************************************)
(* Program constants.                                                      *)
(***************************************************************************)
\* `key.glyph_id as u16` keeps the low 16 bits of the u32 glyph id.
U16Range == 65536

(***************************************************************************)
(* Option values: None is the empty sequence, Some(x) a one-element one.   *)
(***************************************************************************)
None == << >>
Some(x) == << x >>
IsSome(o) == o # None
Unwrap(o) == o[1]

(***************************************************************************)
(* Style (peniko): Fill(NonZero), Fill(EvenOdd) or Stroke(stroke).         *)
(***************************************************************************)
FillNonZero == << "Fill", "NonZero" >>
FillEvenOdd == << "Fill", "EvenOdd" >>
StrokeStyle == << "Stroke", "w1" >>
Styles == { FillNonZero, FillEvenOdd, StrokeStyle }

(***************************************************************************)
(* StreamOffsets and the Encoding buffer.  The buffer keeps the style      *)
(* records themselves (the fill rule each carries) and the lengths of the  *)
(* other five streams.                                                     *)
(***************************************************************************)
ZeroOffsets ==
    [ path_tags |-> 0, path_data |-> 0, draw_tags |-> 0,
      draw_data |-> 0, transforms |-> 0, styles |-> 0 ]

EmptyEncoding ==
    [ path_tags |-> 0, path_data |-> 0, draw_tags |-> 0,
      draw_data |-> 0, transforms |-> 0, styles |-> << >> ]

\* Encoding::stream_offsets: the current length of each stream.
stream_offsets(enc) ==
    [ path_tags |-> enc.path_tags, path_data |-> enc.path_data,
      draw_tags |-> enc.draw_tags, draw_data |-> enc.draw_data,
      transforms |-> enc.transforms, styles |-> Len(enc.styles) ]

\* Encoding::encode_fill_style: appends one fill-style record.
encode_fill_style(enc, fill) ==
    [ enc EXCEPT !.styles = Append(@, fill) ]

\* Encoding::encode_path: a path builder bound to the buffer; the builder
\* counts the segments it has appended.
encode_path(enc, flag) ==
    [ enc |-> enc, flag |-> flag, n_segments |-> 0 ]

\* The path builder appending n segments (one tag and one data unit each).
path_append(path, n) ==
    [ path EXCEPT !.enc.path_tags = @ + n,
                  !.enc.path_data = @ + n,
                  !.n_segments = @ + n ]

\* PathEncoder::finish: the number of segments the path holds.
path_finish(path, flag) == path.n_segments

\* Encoding::reset: the empty buffer.
encoding_reset(enc) == EmptyEncoding

\* Component-wise order on StreamOffsets.
OffsetsLeq(a, b) ==
    /\ a.path_tags <= b.path_tags
    /\ a.path_data <= b.path_data
    /\ a.draw_tags <= b.draw_tags
    /\ a.draw_data <= b.draw_data
    /\ a.transforms <= b.transforms
    /\ a.styles <= b.styles

(***************************************************************************)
(* Outline source (skrifa OutlineGlyphCollection): glyph id -> outline.    *)
(* An outline is described by what drawing it does: the segments it emits  *)
(* and whether the draw ends in an error.                                  *)
(***************************************************************************)
\* A well-formed glyph, a glyph without contours (a space), and a glyph
\* whose data is malformed: its draw emits one segment and then fails.
NormalOutline == [ segs |-> OutlineSegs, ok |-> TRUE ]
SpaceOutline == [ segs |-> 0, ok |-> TRUE ]
BadOutline == [ segs |-> 1, ok |-> FALSE ]

\* Two fonts.  FontA holds glyph 0 (well-formed) and glyph 1 (a space);
\* FontB lacks glyph 0 and holds a malformed glyph 1.
FontA == (0 :> NormalOutline) @@ (1 :> SpaceOutline)
FontB == (1 :> BadOutline)
Fonts == { FontA, FontB }

\* OutlineGlyphCollection::get
outlines_get(outlines, gid) ==
    IF gid \in DOMAIN outlines THEN Some(outlines[gid]) ELSE None

\* OutlineGlyph::draw: the segments handed to the pen and the outcome.
\* Size and variation coordinates move the points, not their number.
outline_draw(outline, font_size, coords) ==
    [ segs |-> outline.segs, ok |-> outline.ok ]

\* kurbo::stroke: the outline of a stroked path; an empty path has none.
stroke_segments(n) == IF n = 0 THEN 0 ELSE 2 * n

(***************************************************************************)
(* GlyphKey and the requests the model issues.                             *)
(***************************************************************************)
\* A key of font 1, glyph 0, at size 16.0 (f32::to_bits gives 0x41800000).
BaseKey ==
    [ font_id |-> 1, font_index |-> 0, glyph_id |-> 0,
      font_size_bits |-> 1098907648, hint |-> FALSE ]

\* The same key at the next representable size, 16.000002: one bit apart.
NextSizeKey == [ BaseKey EXCEPT !.font_size_bits = @ + 1 ]

\* Keys that differ from BaseKey in the glyph id only: glyph 1, and a glyph
\* id above the 16-bit range.
GlyphKeys ==
    { [ BaseKey EXCEPT !.glyph_id = g ] : g \in { 0, 1, U16Range } }

\* Keys that differ from BaseKey in exactly one of the other four fields.
FieldKeys ==
    { BaseKey,
      [ BaseKey EXCEPT !.font_id = 2 ],
      [ BaseKey EXCEPT !.font_index = 1 ],
      NextSizeKey,
      [ BaseKey EXCEPT !.hint = TRUE ] }

\* Variation coordinates: none (the default instance) or one axis.
NoCoords == << >>
CoordSets == { NoCoords, << 1 >> }

FontSizes == { 16 }

\* Every combination of outline source, glyph key, style and coordinates.
Requests ==
    [ outlines : Fonts, key : GlyphKeys, style : Styles,
      font_size : FontSizes, coords : CoordSets ]

\* Requests over the keys that differ in one field, against one font.
KeyRequests ==
    [ outlines : { FontA }, key : FieldKeys \cup GlyphKeys,
      style : { FillNonZero, StrokeStyle },
      font_size : FontSizes, coords : { NoCoords } ]

\* Requests whose font_size argument and outline source vary independently
\* of the key: sizes 16.0 and 12.0 against keys made for 16.0 and
\* 16.000002, from either font.
ArgFontSizes == { 12, 16 }
ArgRequests ==
    [ outlines : Fonts, key : { BaseKey, NextSizeKey },
      style : { FillNonZero, StrokeStyle },
      font_size : ArgFontSizes, coords : { NoCoords } ]

\* A faulty key identity: equality and hash that leave out the size bits.
KeyOf_without_size(key) ==
    << key.font_id, key.font_index, key.glyph_id, 0, key.hint >>

\* #[derive(PartialEq, Eq, Hash)] on GlyphKey: identity over all five fields.
KeyOf(key) ==
    << key.font_id, key.font_index, key.glyph_id, key.font_size_bits, key.hint >>

(***************************************************************************)
(* CachedRange and the memo map.                                           *)
(***************************************************************************)
\* A faulty constructor: the two snapshots change places.
CachedRange_swapped(start, end) == [ start |-> end, end |-> start ]

CachedRange(start, end) == [ start |-> start, end |-> end ]

\* Lines 102-113, CachedRange::len: end minus start in each counter.  The
\* counters are unsigned, so a negative difference here is an underflow.
cached_range_len(range) ==
    [ path_tags |-> range.end.path_tags - range.start.path_tags,
      path_data |-> range.end.path_data - range.start.path_data,
      draw_tags |-> range.end.draw_tags - range.start.draw_tags,
      draw_data |-> range.end.draw_data - range.start.draw_data,
      transforms |-> range.end.transforms - range.start.transforms,
      styles |-> range.end.styles - range.start.styles ]

\* CachedRange::default()
DefaultRange == CachedRange(ZeroOffsets, ZeroOffsets)

\* HashMap::new / HashMap::clear
EmptyMap == [ k \in {} |-> DefaultRange ]

\* HashMap insert of (k, v)
MapPut(map, k, v) ==
    [ x \in DOMAIN map \cup { k } |-> IF x = k THEN v ELSE map[x] ]

(***************************************************************************)
(* GlyphCache::get_or_insert                                               *)
(***************************************************************************)
\* A faulty snapshot: `start` is the default (all-zero) offsets.
encode_start_default(enc) == ZeroOffsets

\* A faulty snapshot: `start` taken after the style record is emitted.
encode_start_after_style(enc) ==
    stream_offsets(encode_fill_style(enc, "NonZero"))

\* Line 47: the offsets snapshot taken as `start`.
encode_start(enc) == stream_offsets(enc)

\* A faulty rule: a stroke's record carries the even-odd rule.
effective_fill_even_odd_stroke(style) ==
    IF style[1] = "Fill" THEN style[2] ELSE "EvenOdd"

\* Lines 48-51: the fill rule of the style record.
effective_fill(style) ==
    IF style[1] = "Fill" THEN style[2] ELSE "NonZero"

\* A faulty conversion: the glyph id is used at its full width.
glyph_id_untruncated(glyph_id) == glyph_id

\* Line 54: `key.glyph_id as u16`, the low 16 bits of the u32 glyph id.
glyph_id_as_u16(glyph_id) == glyph_id % U16Range

\* A faulty begin: the path is begun with the flag false.
begin_path_unset(enc) == encode_path(enc, FALSE)

\* Line 53: encoding_cache.encode_path(true), for every style.
begin_path(enc) == encode_path(enc, TRUE)

\* Lines 46-80: the encode_glyph closure.  It works on the cache's own
\* buffer, so whatever it appended before returning None stays appended.
\* Yields the buffer after the attempt, the closure's value, and the calls
\* it made on the buffer, the path builder and the outline source, in the
\* order of the code, each with the argument that matters.
encode_glyph(enc, r) ==
    LET start == encode_start(enc)
        fill == effective_fill(r.style)
        e1 == encode_fill_style(enc, fill)
        path == begin_path(e1)
        finish_flag == FALSE
        gid == glyph_id_as_u16(r.key.glyph_id)
        outline == outlines_get(r.outlines, gid)
        c_get == << << "encode_fill_style", fill >>,
                    << "encode_path", path.flag >>,
                    << "outlines.get", gid >> >>
    IN  IF outline = None
        THEN [ enc |-> path.enc, val |-> None, calls |-> c_get ]
        ELSE
          LET d == outline_draw(Unwrap(outline), r.font_size, r.coords)
              c_draw == Append(c_get, << "outline.draw", r.font_size >>)
              drawn ==
                  IF r.style[1] = "Fill"
                  THEN \* the outline draws straight into the path builder
                       [ ok |-> d.ok, path |-> path_append(path, d.segs) ]
                  ELSE \* the outline draws into a BezPathPen; only a
                       \* completed draw is stroked and appended
                       [ ok |-> d.ok,
                         path |-> IF d.ok
                                  THEN path_append(path, stroke_segments(d.segs))
                                  ELSE path ]
              c_finish == Append(c_draw, << "path.finish", finish_flag >>)
          IN  IF ~drawn.ok
              THEN [ enc |-> drawn.path.enc, val |-> None,
                     calls |-> c_draw ]
              ELSE IF path_finish(drawn.path, finish_flag) = 0
              THEN [ enc |-> drawn.path.enc, val |-> None,
                     calls |-> c_finish ]
              ELSE [ enc |-> drawn.path.enc,
                     val |-> Some(CachedRange(start,
                                     stream_offsets(drawn.path.enc))),
                     calls |-> c_finish ]

\* A faulty eligibility test: the variation coordinates are not looked at.
IsCacheable_ignoring_coords(style, coords) ==
    style = FillNonZero

\* A faulty eligibility test: any fill rule is taken for cacheable.
IsCacheable_any_fill(style, coords) ==
    style[1] = "Fill" /\ ~(coords # << >>)

\* Lines 44, 83: only non-zero fills of the default instance are cached.
IsCacheable(style, coords) ==
    style = FillNonZero /\ ~(coords # << >>)

\* A faulty lookup: the stored range is never found, as with a plain
\* insert in place of the entry match.
entry_occupied_never(map, k) == None

\* Lines 85-86: the Entry::Occupied arm, the stored range if there is one.
entry_occupied(map, k) ==
    IF k \in DOMAIN map THEN Some(map[k]) ELSE None

\* A faulty insert: a failed encode stores the default range
\* (unwrap_or_default in place of `?`).
entry_vacant_insert_default(map, k, val) ==
    MapPut(map, k, IF val = None THEN DefaultRange ELSE Unwrap(val))

\* A faulty insert: storing the new entry evicts every other one.
entry_vacant_insert_evicting(map, k, val) ==
    IF val = None THEN map ELSE [ x \in { k } |-> Unwrap(val) ]

\* Line 87: the Entry::Vacant arm; `?` leaves before insert on None.
entry_vacant_insert(map, k, val) ==
    IF val = None THEN map ELSE MapPut(map, k, Unwrap(val))

\* A faulty call: the outline is looked up before the map, so a request
\* whose outline source lacks the glyph is never served from the map.
get_or_insert_outline_first(enc, map, r) ==
    LET k == KeyOf(r.key)
        cacheable == IsCacheable(r.style, r.coords)
        absent == outlines_get(r.outlines, r.key.glyph_id % U16Range) = None
        found == IF cacheable /\ ~absent THEN entry_occupied(map, k)
                 ELSE None
        e == encode_glyph(enc, r)
    IN  IF found # None
        THEN [ encoding |-> enc, glyphs |-> map,
               ret |-> found, branch |-> "hit", calls |-> << >> ]
        ELSE [ encoding |-> e.enc,
               glyphs |-> IF cacheable /\ k \notin DOMAIN map
                          THEN entry_vacant_insert(map, k, e.val) ELSE map,
               ret |-> e.val,
               branch |-> IF cacheable THEN "miss" ELSE "uncached",
               calls |-> e.calls ]

\* A faulty call: a failed encode rewinds the buffer to empty.
get_or_insert_rewinding(enc, map, r) ==
    LET k == KeyOf(r.key)
        cacheable == IsCacheable(r.style, r.coords)
        found == IF cacheable THEN entry_occupied(map, k) ELSE None
        e == encode_glyph(enc, r)
        arm == IF cacheable THEN "miss" ELSE "uncached"
    IN  IF found # None
        THEN [ encoding |-> enc, glyphs |-> map,
               ret |-> found, branch |-> "hit", calls |-> << >> ]
        ELSE IF e.val = None
        THEN [ encoding |-> encoding_reset(enc), glyphs |-> map,
               ret |-> None, branch |-> arm, calls |-> e.calls ]
        ELSE [ encoding |-> e.enc,
               glyphs |-> IF cacheable THEN MapPut(map, k, Unwrap(e.val))
                          ELSE map,
               ret |-> e.val, branch |-> arm, calls |-> e.calls ]

\* Lines 35-93: the whole call.  Yields the two fields after the call, the
\* value returned, the arm taken and the calls the encode attempt made (none
\* on a hit, where the closure does not run).
get_or_insert(enc, map, r) ==
    IF IsCacheable(r.style, r.coords)
    THEN LET k == KeyOf(r.key)
             found == entry_occupied(map, k)
         IN  IF found # None
             THEN [ encoding |-> enc, glyphs |-> map,
                    ret |-> found, branch |-> "hit", calls |-> << >> ]
             ELSE LET e == encode_glyph(enc, r)
                      m == entry_vacant_insert(map, k, e.val)
                  IN  [ encoding |-> e.enc, glyphs |-> m,
                        ret |-> IF e.val = None THEN None
                                ELSE Some(m[k]),
                        branch |-> "miss", calls |-> e.calls ]
    ELSE LET e == encode_glyph(enc, r)
         IN  [ encoding |-> e.enc, glyphs |-> map,
               ret |-> e.val, branch |-> "uncached", calls |-> e.calls ]

\* A faulty clear: the map is left as it is.
glyphs_clear_skipped(map) == map

\* Line 32: self.glyphs.clear()
glyphs_clear(map) == EmptyMap

(***************************************************************************)
(* State.                                                                  *)
(***************************************************************************)
VARIABLES
    encoding,   \* GlyphCache::encoding
    glyphs,     \* GlyphCache::glyphs
    op,         \* the last operation: "new", "get_or_insert" or "clear"
    prevOp,     \* how the operation before it ended: "new", "clear",
                \* "hit", "encoded" (an encode that returned a range) or
                \* "failed" (an encode that returned None)
    repeated,   \* the last get_or_insert had the arguments of a
                \* get_or_insert directly before it
    req,        \* the arguments of the last get_or_insert
    ret,        \* the value the last get_or_insert returned
    branch,     \* the arm it took: "hit", "miss" or "uncached"
    calls,      \* the calls its encode attempt made, in order
    first,      \* key -> range returned to the first successful eligible
                \* request for the key since the last clear
    firstArgs,  \* key -> the outline source and font size of that request
    uncached,   \* request -> range returned to the latest successful
                \* ineligible request with these arguments since the
                \* last clear
    stale,      \* after a clear: the keys that were cached when it ran
    wasStale    \* the last get_or_insert asked for a key of `stale`

vars ==
    << encoding, glyphs, op, prevOp, repeated, req, ret, branch, calls,
       first, firstArgs, uncached, stale, wasStale >>

\* The buffer position.
Offsets == stream_offsets(encoding)

\* How the last operation ended.
Outcome ==
    IF op # "get_or_insert" THEN op
    ELSE IF branch = "hit" THEN "hit"
    ELSE IF ret # None THEN "encoded"
    ELSE "failed"

\* The eligibility rule as the documentation states it.
Eligible(r) == r.style = FillNonZero /\ r.coords = NoCoords

EmptyFirst == [ k \in {} |-> DefaultRange ]

InitialRequest ==
    [ outlines |-> FontA, key |-> BaseKey, style |-> FillNonZero,
      font_size |-> 16, coords |-> NoCoords ]

\* GlyphCache::default()
Init ==
    /\ encoding = EmptyEncoding
    /\ glyphs = EmptyMap
    /\ op = "new"
    /\ prevOp = "new"
    /\ repeated = FALSE
    /\ req = InitialRequest
    /\ ret = None
    /\ branch = "none"
    /\ calls = << >>
    /\ first = EmptyFirst
    /\ firstArgs = EmptyFirst
    /\ uncached = EmptyFirst
    /\ stale = {}
    /\ wasStale = FALSE

\* One call of get_or_insert with a request drawn from Reqs.
GetOrInsertOver(Reqs) ==
    \E r \in Reqs :
        /\ Len(encoding.styles) < MaxStyles
        /\ LET res == get_or_insert(encoding, glyphs, r)
           IN  /\ encoding' = res.encoding
               /\ glyphs' = res.glyphs
               /\ ret' = res.ret
               /\ branch' = res.branch
               /\ calls' = res.calls
               /\ first' = IF Eligible(r) /\ res.ret # None
                              /\ r.key \notin DOMAIN first
                           THEN MapPut(first, r.key, Unwrap(res.ret))
                           ELSE first
               /\ firstArgs' = IF Eligible(r) /\ res.ret # None
                                  /\ r.key \notin DOMAIN first
                               THEN MapPut(firstArgs, r.key,
                                           [ outlines |-> r.outlines,
                                             font_size |-> r.font_size ])
                               ELSE firstArgs
               /\ uncached' = IF ~Eligible(r) /\ res.ret # None
                              THEN MapPut(uncached, r, Unwrap(res.ret))
                              ELSE uncached
        /\ req' = r
        /\ op' = "get_or_insert"
        /\ prevOp' = Outcome
        /\ repeated' = (op = "get_or_insert" /\ r = req)
        /\ wasStale' = (r.key \in stale)
        /\ stale' = {}

GetOrInsert == GetOrInsertOver(Requests)

GetOrInsertKeys == GetOrInsertOver(KeyRequests)

GetOrInsertArgs == GetOrInsertOver(ArgRequests)

\* GlyphCache::clear
Clear ==
    /\ encoding' = encoding_reset(encoding)
    /\ glyphs' = glyphs_clear(glyphs)
    /\ op' = "clear"
    /\ prevOp' = Outcome
    /\ first' = EmptyFirst
    /\ firstArgs' = EmptyFirst
    /\ uncached' = EmptyFirst
    /\ stale' = DOMAIN first
    /\ UNCHANGED << req, ret, branch, calls, repeated, wasStale >>

Next == GetOrInsert \/ Clear

Spec == Init /\ [][Next]_vars

\* The same cache driven with keys that differ in a single field.
NextKeys == GetOrInsertKeys \/ Clear

SpecKeys == Init /\ [][NextKeys]_vars

\* The same cache driven with font sizes and outline sources that need not
\* agree with the key.
NextArgs == GetOrInsertArgs \/ Clear

SpecArgs == Init /\ [][NextArgs]_vars


(***************************************************************************)
(* Properties.  A step of get_or_insert is a step with op' =               *)
(* "get_or_insert"; unprimed variables are the cache at entry to the call, *)
(* primed ones the cache at return.                                        *)
(***************************************************************************)
IsCall == op' = "get_or_insert"

\* The buffer position moved forward in this step.
Advanced == OffsetsLeq(Offsets, Offsets') /\ Offsets' # Offsets

\* The outline the call's glyph id resolves to in its outline source.
Resolved(r) == outlines_get(r.outlines, r.key.glyph_id % U16Range)

\* C1 (idempotence of eligible requests): once an eligible request for key
\* K has succeeded and no clear has happened since, every later eligible
\* request for K returns that same range and changes neither the buffer
\* offsets nor the memo map.
C1_Idempotence ==
    [][ (IsCall /\ Eligible(req') /\ req'.key \in DOMAIN first)
          => /\ ret' = Some(first[req'.key])
             /\ Offsets' = Offsets
             /\ glyphs' = glyphs ]_vars

\* An eligible request was answered from the map with the range the first
\* request for its key had returned, other calls having come between.
C1_Witness ==
    /\ op = "get_or_insert"
    /\ branch = "hit"
    /\ Eligible(req)
    /\ req.key \in DOMAIN first
    /\ ret = Some(first[req.key])
    /\ Offsets # first[req.key].end

\* C2 (atomicity on lookup failure): a call whose glyph id is absent from
\* the outline source returns None and leaves the buffer offsets as they
\* were before the call.
C2_LookupFailureAtomic ==
    [][ (IsCall /\ Resolved(req') = None)
          => /\ ret' = None
             /\ Offsets' = Offsets ]_vars

\* C3 (atomicity on degeneracy): a call whose outline draws to zero path
\* segments returns None and leaves the buffer exactly as it was.
C3_DegenerateAtomic ==
    [][ (IsCall /\ Resolved(req') # None
           /\ Unwrap(Resolved(req')).ok
           /\ Unwrap(Resolved(req')).segs = 0)
          => /\ ret' = None
             /\ encoding' = encoding ]_vars

\* C4 (atomicity on drawing failure): a call whose outline is found but
\* fails to draw, in the fill or the stroke arm, returns None and leaves
\* the buffer exactly as it was: no style record, no segment.
C4_DrawFailureAtomic ==
    [][ (IsCall /\ Resolved(req') # None
           /\ ~Unwrap(Resolved(req')).ok)
          => /\ ret' = None
             /\ encoding' = encoding ]_vars

\* The map holds an entry for exactly the keys that have had a successful
\* eligible request since the last clear: none for a request that failed.
NoFailedEntries ==
    DOMAIN glyphs = { KeyOf(k) : k \in DOMAIN first }

\* C5 (failure never changes the map): a call that returns None, whatever
\* the cause and whether eligible or not, leaves the memo map as it was; no
\* entry, and no failed entry, is stored for its key, so the same request
\* made again runs the encode procedure again.
C5_FailureKeepsMap ==
    [][ /\ (IsCall /\ ret' = None)
            => glyphs' = glyphs /\ branch' # "hit"
        /\ NoFailedEntries'
        /\ (IsCall /\ op = "get_or_insert" /\ ret = None /\ req' = req)
            => branch' # "hit" /\ ret' = None ]_vars

\* An eligible request failed twice in a row while the map held an entry.
C5_Witness ==
    /\ op = "get_or_insert"
    /\ repeated
    /\ prevOp = "failed"
    /\ ret = None
    /\ Eligible(req)
    /\ branch = "miss"
    /\ glyphs # EmptyMap
    /\ KeyOf(req.key) \notin DOMAIN glyphs


\* C6 (non-memoization of ineligible requests): a call whose style is a
\* stroke or a fill with a rule other than non-zero, or whose coords are
\* non-empty, never adds or changes a map entry; and when such a request,
\* having succeeded, is made again on the same buffer (before the next
\* clear) and succeeds, it is encoded again: the buffer offsets advance and
\* the new range starts at or after the end of the earlier one.
C6_NonMemoization ==
    [][ /\ (IsCall /\ ~Eligible(req')) => glyphs' = glyphs
        /\ (IsCall /\ ~Eligible(req') /\ req' \in DOMAIN uncached
              /\ ret' # None)
            => /\ branch' = "uncached"
               /\ Advanced
               /\ OffsetsLeq(uncached[req'].end, Unwrap(ret').start) ]_vars

\* An ineligible request succeeded a second time since the last clear,
\* with another call between the two, and the map holds no entry.
C6_Witness ==
    /\ op = "get_or_insert"
    /\ ~Eligible(req)
    /\ ~repeated
    /\ ret # None
    /\ req \in DOMAIN uncached
    /\ Unwrap(ret).start.styles >= 2
    /\ glyphs = EmptyMap

\* C7 (ineligible requests are never served from the map): an ineligible
\* call for a key K that is cached does not return the cached range; it
\* runs the encode procedure, the range it returns is a fresh one starting
\* at the buffer position at call time, and K's entry stays as it was.
C7_NeverServedFromMap ==
    [][ (IsCall /\ ~Eligible(req') /\ KeyOf(req'.key) \in DOMAIN glyphs)
          => /\ branch' = "uncached"
             /\ ret' # Some(glyphs[KeyOf(req'.key)])
             /\ ret' # None => Unwrap(ret').start = Offsets
             /\ glyphs' = glyphs ]_vars

\* A stroke request for a cached key returned a fresh range right after
\* the cached one, and the map still holds the cached range for the key.
C7_Witness ==
    /\ op = "get_or_insert"
    /\ ~Eligible(req)
    /\ branch = "uncached"
    /\ KeyOf(req.key) \in DOMAIN glyphs
    /\ ret # None
    /\ Unwrap(ret).start = glyphs[KeyOf(req.key)].end
    /\ Unwrap(ret) # glyphs[KeyOf(req.key)]

\* C8 (reset semantics): clear leaves the map empty and the buffer at the
\* zero offset; a request for a key that was cached before the clear (one
\* with no successful eligible request since) is a miss that runs the
\* encode procedure and advances the buffer offsets; the first call after
\* a clear, when it produces a range, produces one starting at zero.
C8_ResetSemantics ==
    [][ /\ (op' = "clear")
            => glyphs' = EmptyMap /\ Offsets' = ZeroOffsets
        /\ (IsCall /\ Eligible(req') /\ req'.key \notin DOMAIN first)
            => branch' = "miss" /\ Advanced
        /\ (IsCall /\ op = "clear")
            => /\ branch' # "hit"
               /\ Advanced
               /\ ret' # None => Unwrap(ret').start = ZeroOffsets ]_vars

\* The first call after a clear asked for a key that was cached when the
\* clear ran, missed, and produced a range starting at zero that is now in
\* the map.
C8_Witness ==
    /\ op = "get_or_insert"
    /\ prevOp = "clear"
    /\ wasStale
    /\ branch = "miss"
    /\ ret # None
    /\ Unwrap(ret).start = ZeroOffsets
    /\ Offsets # ZeroOffsets
    /\ KeyOf(req.key) \in DOMAIN glyphs

\* Each key with a successful eligible request since the last clear has
\* its own entry, holding the range that request returned, and no two such
\* keys share an entry or a range.
OwnEntries ==
    /\ \A k \in DOMAIN first :
          /\ KeyOf(k) \in DOMAIN glyphs
          /\ glyphs[KeyOf(k)] = first[k]
    /\ \A k1, k2 \in DOMAIN first :
          k1 # k2 => /\ KeyOf(k1) # KeyOf(k2)
                     /\ first[k1] # first[k2]

\* C9 (key discrimination): keys that differ in any one of the five fields
\* are distinct entries: an eligible request for a key with no successful
\* eligible request of its own since the last clear is a miss, whatever
\* other keys are cached, and each cached key has its own stored range.
C9_KeyDiscrimination ==
    [][ /\ (IsCall /\ Eligible(req') /\ req'.key \notin DOMAIN first
              /\ first # EmptyFirst)
            => branch' = "miss"
        /\ OwnEntries' ]_vars

\* Two fields of a key differ.
Differ(k1, k2) ==
    Cardinality({ i \in 1..5 : KeyOf(k1)[i] # KeyOf(k2)[i] })

\* BaseKey and the four keys differing from it in one of font id, font
\* index, size bits and hint flag, and the key differing in the glyph id,
\* have been requested in some order, two of them being cached with
\* different ranges: the last call missed on a key that differs in the size
\* bits only from a cached one.
C9_Witness ==
    /\ op = "get_or_insert"
    /\ branch = "miss"
    /\ ret # None
    /\ req.key = NextSizeKey
    /\ BaseKey \in DOMAIN first
    /\ KeyOf(BaseKey) \in DOMAIN glyphs
    /\ KeyOf(req.key) \in DOMAIN glyphs
    /\ glyphs[KeyOf(BaseKey)] # glyphs[KeyOf(req.key)]
    /\ \E k \in DOMAIN first \ { BaseKey, req.key } : Differ(k, BaseKey) = 1

\* C10 (a successful encode returns exactly the span it appended): the
\* range starts at the buffer offsets at entry to the call and ends at the
\* buffer offsets at return; so of two successful encodes with nothing
\* between them, the second starts where the first ended.
C10_ReturnsAppendedSpan ==
    [][ /\ (IsCall /\ branch' # "hit" /\ ret' # None)
            => /\ Unwrap(ret').start = Offsets
               /\ Unwrap(ret').end = Offsets'
        /\ (IsCall /\ branch' # "hit" /\ ret' # None
              /\ Outcome = "encoded")
            => Unwrap(ret').start = Unwrap(ret).end ]_vars

\* Two successful encodes in a row, the second starting past zero.
C10_Witness ==
    /\ op = "get_or_insert"
    /\ prevOp = "encoded"
    /\ branch # "hit"
    /\ ret # None
    /\ Unwrap(ret).start # ZeroOffsets
    /\ Unwrap(ret).end = Offsets
    /\ Unwrap(ret).end # Unwrap(ret).start


\* A range is well-formed: end >= start in every counter, and its len() is
\* non-negative in every counter.
WellFormed(range) ==
    /\ OffsetsLeq(range.start, range.end)
    /\ OffsetsLeq(ZeroOffsets, cached_range_len(range))

\* C11 (end >= start): every range get_or_insert returns and every range
\* stored in the memo map has end >= start in all six counters, so len()
\* never underflows and is non-negative in every component.
C11_EndAtLeastStart ==
    /\ ret # None => WellFormed(Unwrap(ret))
    /\ \A k \in DOMAIN glyphs : WellFormed(glyphs[k])

\* A stroke request returned a range that does not start at zero while the
\* map stores another range; both have a len() that is positive in the
\* path and style counters.
C11_Witness ==
    /\ op = "get_or_insert"
    /\ branch = "uncached"
    /\ ret # None
    /\ Unwrap(ret).start # ZeroOffsets
    /\ cached_range_len(Unwrap(ret)).path_tags > 0
    /\ cached_range_len(Unwrap(ret)).styles > 0
    /\ \E k \in DOMAIN glyphs : cached_range_len(glyphs[k]).path_data > 0


\* C12 (ranges lie inside the buffer): every stored range ends at or before
\* the buffer's current offsets in every counter; clear() resets the buffer
\* and empties the map in one step; and no state has the buffer reset to
\* zero while the map still holds an entry.
C12_RangesInsideBuffer ==
    /\ \A k \in DOMAIN glyphs : OffsetsLeq(glyphs[k].end, Offsets)
    /\ op = "clear" => Offsets = ZeroOffsets /\ glyphs = EmptyMap
    /\ Offsets = ZeroOffsets => glyphs = EmptyMap

\* The buffer has grown past the end of a stored range: a later encode
\* that was not a hit appended after it.
C12_Witness ==
    /\ op = "get_or_insert"
    /\ branch # "hit"
    /\ \E k \in DOMAIN glyphs :
          /\ OffsetsLeq(glyphs[k].end, Offsets)
          /\ glyphs[k].end # Offsets


\* C13 (the map only grows between clears): a get_or_insert call removes no
\* entry and overwrites no stored range; when it adds an entry, the call is
\* the first successful eligible miss for its key since the last clear, the
\* entry is the only one added, keyed by the request's key, and its value
\* is the range the call returned; an entry only ever disappears in a
\* clear().
C13_MapOnlyGrows ==
    [][ /\ IsCall =>
           /\ \A k \in DOMAIN glyphs :
                 k \in DOMAIN glyphs' /\ glyphs'[k] = glyphs[k]
           /\ glyphs' # glyphs =>
                 /\ branch' = "miss"
                 /\ Eligible(req')
                 /\ ret' # None
                 /\ req'.key \notin DOMAIN first
                 /\ KeyOf(req'.key) \notin DOMAIN glyphs
                 /\ DOMAIN glyphs' = DOMAIN glyphs \cup { KeyOf(req'.key) }
                 /\ glyphs'[KeyOf(req'.key)] = Unwrap(ret')
        /\ (\E k \in DOMAIN glyphs : k \notin DOMAIN glyphs') =>
              op' = "clear" ]_vars

\* The map holds two entries: the last call was a successful eligible miss
\* that added the second one beside the first, whose range is the one it
\* was first stored with.
C13_Witness ==
    /\ op = "get_or_insert"
    /\ branch = "miss"
    /\ ret # None
    /\ Cardinality(DOMAIN glyphs) = 2
    /\ glyphs[KeyOf(req.key)] = Unwrap(ret)
    /\ \E k \in DOMAIN first : k # req.key /\ glyphs[KeyOf(k)] = first[k]


\* C14 (the buffer is append-only under get_or_insert): no get_or_insert
\* call, whether it succeeds or fails, hits or misses, lowers any of the
\* six offset counters; a step that lowers a counter is a clear(), and it
\* leaves all six at zero.
C14_AppendOnly ==
    [][ /\ IsCall => OffsetsLeq(Offsets, Offsets')
        /\ ~OffsetsLeq(Offsets, Offsets') =>
              op' = "clear" /\ Offsets' = ZeroOffsets ]_vars

\* A call that failed after an earlier encode had succeeded: the buffer
\* still holds the earlier path segments and style records.
C14_Witness ==
    /\ op = "get_or_insert"
    /\ ret = None
    /\ prevOp \in { "hit", "encoded" }
    /\ Offsets.path_tags > 0
    /\ Offsets.styles >= 2


\* The rule the documentation gives for a style.
ExpectedRule(style) ==
    IF style = FillNonZero THEN "NonZero"
    ELSE IF style = FillEvenOdd THEN "EvenOdd"
    ELSE "NonZero"

\* C15 (effective fill rule): every encode attempt, eligible or not,
\* successful or not, appends exactly one fill-style record, and does so
\* before it begins the path; the record carries the style's own rule when
\* the style is a fill (non-zero or even-odd) and non-zero when it is a
\* stroke.
C15_EffectiveFillRule ==
    [][ IsCall /\ branch' # "hit" =>
          /\ encoding'.styles =
                Append(encoding.styles, ExpectedRule(req'.style))
          /\ Len(calls') >= 2
          /\ calls'[1] = << "encode_fill_style", ExpectedRule(req'.style) >>
          /\ calls'[2][1] = "encode_path"
          /\ \A i \in 2..Len(calls') : calls'[i][1] # "encode_fill_style"
      ]_vars

\* A stroke attempt wrote a non-zero record after an even-odd fill and a
\* non-zero fill had each written their own.
C15_Witness ==
    /\ op = "get_or_insert"
    /\ req.style = StrokeStyle
    /\ Len(encoding.styles) = 3
    /\ encoding.styles[3] = "NonZero"
    /\ \E i, j \in 1..2 :
          encoding.styles[i] = "EvenOdd" /\ encoding.styles[j] = "NonZero"


\* The flags the encode attempt passed when beginning and when finishing
\* the path (the latter only when the attempt got as far as finishing).
BeginFlags == { calls[i][2] : i \in { j \in 1..Len(calls) : calls[j][1] = "encode_path" } }
FinishFlags == { calls[i][2] : i \in { j \in 1..Len(calls) : calls[j][1] = "path.finish" } }

\* C16 as claimed (both flags are the non-auto-closing value): the flag
\* passed when beginning the path and the flag passed when finishing it are
\* one and the same value, the unset flag, for fill and stroke alike.
C16_BothFlagsNonAutoClosing ==
    op = "get_or_insert" /\ branch # "hit" =>
        /\ BeginFlags = { FALSE }
        /\ FinishFlags \subseteq { FALSE }

\* C16, amended (path flags): every encode attempt, for fill and stroke
\* styles alike, begins its path with the flag set (true) and, when it gets
\* as far as finishing the path, finishes it with the flag unset (false);
\* the two flags are not the same value.  A hit begins no path.
C16_PathFlags ==
    /\ op = "get_or_insert" /\ branch # "hit" =>
          /\ BeginFlags = { TRUE }
          /\ FinishFlags \subseteq { FALSE }
          /\ ret # None => FinishFlags = { FALSE }
    /\ op = "get_or_insert" /\ branch = "hit" =>
          BeginFlags = {} /\ FinishFlags = {}

\* A stroke attempt that returned a range after a fill attempt had: it
\* began a path and finished it.
C16_Witness ==
    /\ op = "get_or_insert"
    /\ req.style = StrokeStyle
    /\ ret # None
    /\ prevOp = "encoded"
    /\ BeginFlags # {}
    /\ FinishFlags # {}


\* C17 (a hit depends only on the key): once an eligible request for key K
\* has succeeded and no clear has happened since, every later eligible
\* request with key K, whatever its font_size and its outline source (be it
\* one that lacks the glyph, or a size that is not the one of
\* key.font_size_bits), returns the range encoded by the first request,
\* makes no call on the outline source or the buffer, and leaves buffer and
\* map as they were.
C17_HitDependsOnlyOnKey ==
    [][ IsCall /\ Eligible(req') /\ req'.key \in DOMAIN first =>
          /\ ret' = Some(first[req'.key])
          /\ branch' = "hit"
          /\ calls' = << >>
          /\ encoding' = encoding
          /\ glyphs' = glyphs ]_vars

\* A hit for a key whose entry was encoded from another outline source, at
\* another font size: the request is for the size-16 key at font size 12,
\* and its outline source lacks the glyph.
C17_Witness ==
    /\ op = "get_or_insert"
    /\ branch = "hit"
    /\ req.key \in DOMAIN firstArgs
    /\ req.key = BaseKey
    /\ req.font_size = 12
    /\ firstArgs[req.key].font_size = 16
    /\ req.outlines # firstArgs[req.key].outlines
    /\ outlines_get(req.outlines, req.key.glyph_id % U16Range) = None
    /\ ret = Some(first[req.key])


\* Two keys alike but for glyph ids that differ by a multiple of 65536.
SameLow16(k1, k2) ==
    /\ k1 # k2
    /\ [ k1 EXCEPT !.glyph_id = 0 ] = [ k2 EXCEPT !.glyph_id = 0 ]
    /\ k1.glyph_id % 65536 = k2.glyph_id % 65536

\* C18 (glyph id truncation): an encode attempt looks up the outline of
\* key.glyph_id mod 65536, so a glyph id of 65536 or more is found whenever
\* the outline source holds the glyph of its low 16 bits; the memo map is
\* keyed on the full glyph id, so of two keys whose glyph ids differ by a
\* multiple of 65536 neither is served from the other's entry: each is
\* encoded on its own first request, from the same outline (the two ranges
\* have the same len()), into an entry of its own.
C18_GlyphIdTruncation ==
    [][ /\ IsCall /\ branch' # "hit" =>
           /\ calls'[3] = << "outlines.get", req'.key.glyph_id % 65536 >>
           /\ (req'.key.glyph_id % 65536) \in DOMAIN req'.outlines =>
                 Len(calls') >= 4 /\ calls'[4][1] = "outline.draw"
           /\ (req'.key.glyph_id % 65536) \notin DOMAIN req'.outlines =>
                 ret' = None /\ Len(calls') = 3
        /\ IsCall /\ Eligible(req') /\ req'.key \notin DOMAIN first
             /\ (\E k \in DOMAIN first : SameLow16(k, req'.key)) =>
           /\ branch' = "miss"
           /\ \A k \in DOMAIN first :
                 SameLow16(k, req'.key)
                   /\ req'.outlines = firstArgs[k].outlines =>
                    /\ ret' # None
                    /\ KeyOf(k) # KeyOf(req'.key)
                    /\ glyphs'[KeyOf(k)] = first[k]
                    /\ glyphs'[KeyOf(req'.key)] = Unwrap(ret')
                    /\ Unwrap(ret') # first[k]
                    /\ cached_range_len(Unwrap(ret')) =
                          cached_range_len(first[k]) ]_vars

\* Glyph 0 and glyph 65536 of the same font are both cached, in two
\* entries holding different ranges of the same length; the last call
\* encoded glyph 65536 by looking up glyph 0.
C18_Witness ==
    /\ op = "get_or_insert"
    /\ branch = "miss"
    /\ req.key = [ BaseKey EXCEPT !.glyph_id = 65536 ]
    /\ ret # None
    /\ calls[3] = << "outlines.get", 0 >>
    /\ BaseKey \in DOMAIN first
    /\ KeyOf(BaseKey) \in DOMAIN glyphs
    /\ KeyOf(req.key) \in DOMAIN glyphs
    /\ glyphs[KeyOf(BaseKey)] # glyphs[KeyOf(req.key)]
    /\ cached_range_len(glyphs[KeyOf(BaseKey)]) =
          cached_range_len(glyphs[KeyOf(req.key)])


\* Two ranges of the buffer share no position: one ends, in every counter,
\* at or before the start of the other.
Disjoint(a, b) == OffsetsLeq(a.end, b.start) \/ OffsetsLeq(b.end, a.start)

\* C19 (stored ranges never overlap): in every reachable state, the ranges
\* stored for any two distinct cached keys are disjoint, also when failed
\* or ineligible encodes appended to the buffer between the two insertions.
C19_RangesDisjoint ==
    \A a, b \in DOMAIN glyphs : a # b => Disjoint(glyphs[a], glyphs[b])

\* Two keys are cached with a gap between their ranges: an encode that was
\* not stored (failed or ineligible) appended between the two insertions.
C19_Witness ==
    /\ op = "get_or_insert"
    /\ branch = "miss"
    /\ ret # None
    /\ prevOp \in { "failed", "encoded" }
    /\ \E a, b \in DOMAIN glyphs :
          /\ a # b
          /\ OffsetsLeq(glyphs[a].end, glyphs[b].start)
          /\ glyphs[a].end # glyphs[b].start
          /\ glyphs[b] = Unwrap(ret)


=============================================================================
